---- MODULE Spec2Model ----
(***************************************************************************)
(* Zero Vector 4: task lifecycle, task dependencies and agent registry.    *)
(*                                                                         *)
(* The persistence layer is modelled as the abstract store its repository  *)
(* classes present: one map per table, create/get_by_id/update by id, the  *)
(* tables' declared constraints, and a session whose writes are committed  *)
(* on normal exit of get_db_session and rolled back when the handler       *)
(* raises.  Every service call is one atomic action.                       *)
(***************************************************************************)
EXTENDS Integers, Sequences, FiniteSets, TLC

\* ---------------------------------------------------------------- bounds
MaxTasks == 4
MaxAgents == 4
MaxDeps == 2
MaxTime == 5
MaxRetryCount == 4
MaxProcs == 2
MaxDuration == 3
MaxUpdates == 3
HierarchyAgents == 3
MaxRecursionDepth == 4
LifecycleTasks == 1
LifecycleAgents == 1
DependencyTasks == 2
MaxResults == 3
MaxResultLevel == 3
MaxDelegationLevel == 4
DeactivationAgents == 2
MaxAssignTasks == 2
MaxCandidates == 2

\* ------------------------------------------------------------- constants
\* Python None in an Optional column
None == -1
\* a well-formed id that no row has and none will get
Missing == 0
\* Task.max_retries default
DefaultMaxRetries == 3

TaskIds == 1..MaxTasks
AgentIds == 1..MaxAgents
DepIds == 1..MaxDeps
\* the ids the calls of the life-cycle scenario name: those of its tasks and
\* one more, which has no row; those of its agents
LifecycleTaskIds == 1..(LifecycleTasks + 1)
LifecycleAgentIds == 1..LifecycleAgents
\* the task ids the calls of the dependency scenario name
DependencyTaskIds == 1..DependencyTasks
\* the callers whose service calls may overlap
Procs == 1..MaxProcs

TaskStatus ==
    {"created", "queued", "assigned", "in_progress", "waiting_for_dependencies",
     "delegated", "under_review", "completed", "failed", "cancelled", "timeout"}

AgentStatus ==
    {"created", "initializing", "active", "busy", "idle", "sleeping",
     "dreaming", "error", "terminated"}

AgentType == {"conductor", "department_head", "specialist", "basic"}

\* the specializations agents are created with: the departments of the
\* orchestration's department_mapping that the modelled requests reach, its
\* fallback, the conductor's and a plain one
Specializations ==
    {"software_development", "quality_assurance", "general_specialist",
     "workflow_orchestration", "general"}

\* the statuses update_agent_status is called with in the model
AgentStatusInputs == {"active", "busy"}

\* the statuses a result passed to complete_task carries in the scenarios
ResultStatusInputs == {"completed", "failed", "cancelled", "timeout"}

VARIABLES
    tasks,          \* tasks table: id -> row
    deps,           \* task_dependencies table: id -> row
    agents,         \* agents table: id -> row
    relationships,  \* agent_relationships table: set of rows
    memories,       \* memories table: agent id -> number of core memories
    now,            \* datetime.utcnow(), in ticks
    roundtrip,      \* history: task id -> progress along create/start/complete
    lastOp,         \* history: the last service call and its outcome
    foreign_keys,   \* whether the configured database enforces foreign keys
    calls,          \* the service calls in flight: caller -> what it has read
    supplied,       \* history: agent id -> count and sum of the durations
                    \* passed to update_performance_metrics
    traversal,      \* the get_agent_hierarchy call in progress
    retried         \* history: task id -> number of retry_task calls that
                    \* succeeded

vars == <<tasks, deps, agents, relationships, memories, now, roundtrip, lastOp,
          foreign_keys, calls, supplied, traversal, retried>>

\* what the calls on the task store and the plain registry calls leave alone
others == <<foreign_keys, calls, supplied, traversal, retried>>

\* ------------------------------------------------------------- helpers
RECURSIVE GCD(_, _)
GCD(a, b) == IF b = 0 THEN a ELSE GCD(b, a % b)

\* a non-negative rational in lowest terms
Rat(n, d) == LET g == GCD(n, d) IN
    IF n = 0 THEN [num |-> 0, den |-> 1] ELSE [num |-> n \div g, den |-> d \div g]

Op(name, id, agent, err) ==
    [op |-> name, id |-> id, agent |-> agent, err |-> err, success |-> FALSE,
     arg |-> <<0, 0>>]

\* BaseRepository.get_by_id: the row, or None when no row has the id
TaskExists(t) == t \in DOMAIN tasks
AgentExists(a) == a \in DOMAIN agents
DepExists(d) == d \in DOMAIN deps

\* uuid4(): a fresh primary key
NextTaskId == Cardinality(DOMAIN tasks) + 1
NextAgentId == Cardinality(DOMAIN agents) + 1
NextDepId == Cardinality(DOMAIN deps) + 1

\* a caller with no call in flight
Idle ==
    [pc |-> "idle", agent |-> 0, task_duration |-> 0, success |-> FALSE,
     tasks_completed |-> 0, tasks_failed |-> 0, average_task_duration |-> Rat(0, 1),
     conductor |-> None, complexity |-> "medium", mentioned |-> {},
     required_expertise |-> {}]

\* no get_agent_hierarchy call in progress
NoTraversal ==
    [status |-> "none", stack |-> <<>>, visits |-> [a \in AgentIds |-> 0]]

\* every table but agents empty, no call in flight
NoTasksNoCalls ==
    /\ tasks = <<>>
    /\ deps = <<>>
    /\ relationships = {}
    /\ memories = <<>>
    /\ now = 1
    /\ roundtrip = <<>>
    /\ lastOp = Op("init", 0, 0, "none")
    /\ calls = [p \in Procs |-> Idle]
    /\ supplied = [a \in AgentIds |-> [count |-> 0, sum |-> 0]]
    /\ traversal = NoTraversal
    /\ retried = [t \in TaskIds |-> 0]

\* The tables as create_all leaves them.  The configured database is SQLite
\* (the default DATABASE_URL), which does not enforce foreign keys unless the
\* connection asks for it, and _init_sqlite does not; or PostgreSQL, which does.
Init ==
    /\ NoTasksNoCalls
    /\ agents = <<>>
    /\ foreign_keys \in BOOLEAN

\* the same on a database that enforces foreign keys
InitEnforced ==
    /\ NoTasksNoCalls
    /\ agents = <<>>
    /\ foreign_keys = TRUE

\* ------------------------------------------------- agent registry (service)
\* Agent.success_rate and the counters of a new row (AgentTable defaults)
NewAgent(type, specialization, parent) ==
    [agent_type |-> type, specialization |-> specialization,
     status |-> "created", parent_agent_id |-> parent,
     delegation_level |-> 0, tasks_completed |-> 0, tasks_failed |-> 0,
     average_task_duration |-> Rat(0, 1)]

\* AgentService._create_core_memories: one memories row per given string
CreateCoreMemories(a, n) == memories @@ (a :> n)

\* AgentService._establish_parent_relationship
EstablishParentRelationship(parent, child) ==
    relationships \cup
        {[agent_a_id |-> parent, agent_b_id |-> child,
          relationship_type |-> "hierarchical", is_directional |-> TRUE,
          dominant_agent_id |-> parent]}

\* AgentService.create_agent.  parent = None: no parent; a parent id without a
\* row violates the agents.parent_agent_id foreign key when the row is
\* flushed, on a database that enforces it.
create_agent(type, specialization, parent, ncore) ==
    /\ NextAgentId \in AgentIds
    /\ LET a == NextAgentId IN
       IF parent # None /\ ~AgentExists(parent) /\ foreign_keys
       THEN /\ lastOp' = Op("create_agent", 0, parent, "integrity_error")
            /\ UNCHANGED <<agents, relationships, memories>>
       ELSE /\ agents' = agents @@ (a :> NewAgent(type, specialization, parent))
            /\ memories' = CreateCoreMemories(a, ncore)
            /\ relationships' = IF parent # None
                                THEN EstablishParentRelationship(parent, a)
                                ELSE relationships
            /\ lastOp' = Op("create_agent", a, parent, "none")
    /\ UNCHANGED <<tasks, deps, now, roundtrip>>
    /\ UNCHANGED others

\* AgentService.recruit_subordinate: a specialist created under the
\* recruiting agent, with the ncore core memories that
\* _analyze_subordinate_requirements derives from the task requirements
recruit_subordinate(recruiting_agent_id, specialization, ncore) ==
    /\ NextAgentId \in AgentIds
    /\ LET a == NextAgentId IN
       IF ~AgentExists(recruiting_agent_id)
       THEN /\ lastOp' = Op("recruit_subordinate", 0, recruiting_agent_id, "not_found")
            /\ UNCHANGED <<agents, relationships, memories>>
       ELSE /\ agents' = agents @@
                    (a :> NewAgent("specialist", specialization, recruiting_agent_id))
            /\ memories' = CreateCoreMemories(a, ncore)
            /\ relationships' = EstablishParentRelationship(recruiting_agent_id, a)
            /\ lastOp' = Op("recruit_subordinate", a, recruiting_agent_id, "none")
    /\ UNCHANGED <<tasks, deps, now, roundtrip>>
    /\ UNCHANGED others

\* AgentRepository.get_subordinates: the ids of the rows it selects
get_subordinates(parent_agent_id) ==
    {a \in DOMAIN agents : agents[a].parent_agent_id = parent_agent_id}

\* a frame of build_hierarchy: the agent and the subordinates not yet descended into
Frame(agent_id) == [agent |-> agent_id, todo |-> get_subordinates(agent_id)]

\* AgentService.get_agent_hierarchy up to the first build_hierarchy frame
get_agent_hierarchy(root_agent_id) ==
    /\ traversal.status # "running"
    /\ IF AgentExists(root_agent_id)
       THEN traversal' = [status |-> "running",
                          stack |-> <<Frame(root_agent_id)>>,
                          visits |-> [NoTraversal.visits EXCEPT ![root_agent_id] = 1]]
       ELSE traversal' = [NoTraversal EXCEPT !.status = "done"]
    /\ lastOp' = Op("get_agent_hierarchy", 0, root_agent_id, "none")
    /\ UNCHANGED <<tasks, deps, agents, relationships, memories, now, roundtrip>>
    /\ UNCHANGED <<foreign_keys, calls, supplied, retried>>

\* One step of build_hierarchy in the innermost frame: the loop over the
\* subordinates ends and the frame returns, or the next subordinate is
\* descended into.  The list get_subordinates returns has no ORDER BY.  A
\* descent beyond Python's recursion limit raises RecursionError, which
\* get_agent_hierarchy logs and re-raises.
build_hierarchy ==
    /\ traversal.status = "running"
    /\ LET depth == Len(traversal.stack)
           top == traversal.stack[depth]
       IN IF top.todo = {}
          THEN /\ traversal' = [traversal EXCEPT
                                   !.stack = SubSeq(@, 1, depth - 1),
                                   !.status = IF depth = 1 THEN "done" ELSE @]
               /\ UNCHANGED lastOp
          ELSE \E subordinate \in top.todo :
                  IF depth = MaxRecursionDepth
                  THEN /\ traversal' = [traversal EXCEPT !.status = "recursion_error",
                                                         !.stack = <<>>]
                       /\ lastOp' = Op("get_agent_hierarchy", 0,
                                       traversal.stack[1].agent, "recursion_error")
                  ELSE /\ traversal' = [traversal EXCEPT
                                           !.stack = Append(
                                               [@ EXCEPT ![depth].todo = @ \ {subordinate}],
                                               Frame(subordinate)),
                                           !.visits[subordinate] = @ + 1]
                       /\ UNCHANGED lastOp
    /\ UNCHANGED <<tasks, deps, agents, relationships, memories, now, roundtrip>>
    /\ UNCHANGED <<foreign_keys, calls, supplied, retried>>

\* AgentService.update_agent_status
update_agent_status(a, status) ==
    /\ agents' = IF AgentExists(a) THEN [agents EXCEPT ![a].status = status] ELSE agents
    /\ lastOp' = Op("update_agent_status", a, a, "none")
    /\ UNCHANGED <<tasks, deps, relationships, memories, now, roundtrip>>
    /\ UNCHANGED others

\* deactivate_agent doing the cleanup its TODO names: the tasks assigned to
\* the agent are unassigned and the agent's relationships deleted
deactivate_agent_cascading(a) ==
    /\ agents' = IF AgentExists(a) THEN [agents EXCEPT ![a].status = "deactivated"] ELSE agents
    /\ tasks' = [t \in DOMAIN tasks |->
                    IF tasks[t].assigned_agent_id = a
                    THEN [tasks[t] EXCEPT !.assigned_agent_id = None, !.status = "queued"]
                    ELSE tasks[t]]
    /\ relationships' = {r \in relationships : r.agent_a_id # a /\ r.agent_b_id # a}
    /\ lastOp' = Op("deactivate_agent", a, a, "none")
    /\ UNCHANGED <<deps, memories, now, roundtrip>>
    /\ UNCHANGED others

\* AgentService.deactivate_agent
deactivate_agent(a) ==
    /\ agents' = IF AgentExists(a) THEN [agents EXCEPT ![a].status = "deactivated"] ELSE agents
    /\ lastOp' = Op("deactivate_agent", a, a, "none")
    /\ UNCHANGED <<tasks, deps, relationships, memories, now, roundtrip>>
    /\ UNCHANGED others

\* the updates of update_performance_metrics with the average taken over
\* new_total tasks before this one instead of new_total - 1
PerformanceUpdatesMiscounted(agent, task_duration, success) ==
    LET new_total == agent.tasks_completed + agent.tasks_failed + 1
        avg == agent.average_task_duration
    IN [tasks_completed |-> agent.tasks_completed + (IF success THEN 1 ELSE 0),
        tasks_failed |-> agent.tasks_failed + (IF success THEN 0 ELSE 1),
        average_task_duration |->
            Rat(avg.num * new_total + task_duration * avg.den, avg.den * new_total)]

\* AgentRepository.update_performance_metrics: the column values it computes
\* from the agent row it has read
PerformanceUpdates(agent, task_duration, success) ==
    LET new_total == agent.tasks_completed + agent.tasks_failed + 1
        avg == agent.average_task_duration
    IN [tasks_completed |-> agent.tasks_completed + (IF success THEN 1 ELSE 0),
        tasks_failed |-> agent.tasks_failed + (IF success THEN 0 ELSE 1),
        \* (average * (new_total - 1) + task_duration) / new_total
        average_task_duration |->
            Rat(avg.num * (new_total - 1) + task_duration * avg.den,
                avg.den * new_total)]

\* BaseRepository.update of the agent's row with those values
WritePerformanceUpdates(a, updates) ==
    [agents EXCEPT ![a].tasks_completed = updates.tasks_completed,
                   ![a].tasks_failed = updates.tasks_failed,
                   ![a].average_task_duration = updates.average_task_duration]

\* AgentRepository.update_performance_metrics run without interruption: the
\* agents table afterwards
UpdatePerformanceMetrics(a, task_duration, success) ==
    IF ~AgentExists(a) THEN agents
    ELSE WritePerformanceUpdates(a, PerformanceUpdates(agents[a], task_duration, success))

\* AgentService.update_performance_metrics up to the return of get_by_id:
\* caller p holds the agent's row as it has read it (or the call has
\* returned None for an agent without a row).  The awaits of the call let
\* another caller's call run before the update.
update_performance_metrics_read(p, a, task_duration, success) ==
    /\ calls[p].pc = "idle"
    /\ supplied[a].count < MaxUpdates
    /\ IF AgentExists(a)
       THEN /\ calls' = [calls EXCEPT ![p] =
                            [Idle EXCEPT !.pc = "read", !.agent = a,
                                         !.task_duration = task_duration,
                                         !.success = success,
                                         !.tasks_completed = agents[a].tasks_completed,
                                         !.tasks_failed = agents[a].tasks_failed,
                                         !.average_task_duration =
                                             agents[a].average_task_duration]]
            /\ supplied' = [supplied EXCEPT
                               ![a] = [count |-> @.count + 1, sum |-> @.sum + task_duration]]
            /\ lastOp' = Op("update_performance_metrics", p, a, "none")
       ELSE /\ lastOp' = Op("update_performance_metrics", p, a, "agent_not_found")
            /\ UNCHANGED <<calls, supplied>>
    /\ UNCHANGED <<tasks, deps, agents, relationships, memories, now, roundtrip>>
    /\ UNCHANGED <<foreign_keys, traversal, retried>>

\* the rest of the call: the update with the values computed from the row
\* read, and the commit of get_db_session
update_performance_metrics_write(p) ==
    /\ calls[p].pc = "read"
    /\ agents' = WritePerformanceUpdates(calls[p].agent,
                     PerformanceUpdates(calls[p], calls[p].task_duration, calls[p].success))
    /\ calls' = [calls EXCEPT ![p] = Idle]
    /\ lastOp' = [Op("update_performance_metrics", p, calls[p].agent, "none")
                     EXCEPT !.success = TRUE]
    /\ UNCHANGED <<tasks, deps, relationships, memories, now, roundtrip>>
    /\ UNCHANGED <<foreign_keys, supplied, traversal, retried>>

\* ------------------------------------------------------ task service
\* the history of a task none of whose calls is named by the round trip
Forget(t) == IF t \in DOMAIN roundtrip THEN [roundtrip EXCEPT ![t] = "none"] ELSE roundtrip

\* the Task row built by TaskService.create_task in a store with tasks ts
NewTaskIn(ts, assigned, parent, task_type) ==
    LET has_parent == parent # None /\ parent \in DOMAIN ts IN
    [status |-> "created",
     task_type |-> task_type,
     assigned_agent_id |-> assigned,
     parent_task_id |-> parent,
     delegation_level |-> IF has_parent THEN ts[parent].delegation_level + 1 ELSE 0,
     delegation_chain |-> IF has_parent THEN Append(ts[parent].delegation_chain, parent)
                          ELSE <<>>,
     started_at |-> None,
     completed_at |-> None,
     actual_duration |-> None,
     retry_count |-> 0,
     max_retries |-> DefaultMaxRetries]

\* the same row in the store as it is now
NewTask(assigned, parent, task_type) == NewTaskIn(tasks, assigned, parent, task_type)

\* whether the tasks table of a store with tasks ts and agents ags accepts a
\* row: tasks.assigned_agent_id and tasks.parent_task_id are foreign keys
TaskRowAcceptedIn(ts, ags, row) ==
    foreign_keys =>
        /\ row.assigned_agent_id # None => row.assigned_agent_id \in DOMAIN ags
        /\ row.parent_task_id # None => row.parent_task_id \in DOMAIN ts

\* the same in the store as it is now
TaskRowAccepted(row) == TaskRowAcceptedIn(tasks, agents, row)

\* TaskService.create_task
create_task(assigned, parent, task_type) ==
    /\ NextTaskId \in TaskIds
    /\ LET t == NextTaskId
           row == NewTask(assigned, parent, task_type)
       IN
       IF ~TaskRowAccepted(row)
       THEN /\ lastOp' = Op("create_task", 0, assigned, "integrity_error")
            /\ UNCHANGED <<tasks, roundtrip>>
       ELSE /\ tasks' = tasks @@ (t :> row)
            /\ roundtrip' = roundtrip @@
                    (t :> IF assigned # None THEN "created" ELSE "none")
            /\ lastOp' = Op("create_task", t, assigned, "none")
    /\ UNCHANGED <<deps, agents, relationships, memories, now>>
    /\ UNCHANGED others

\* assign_task without its check of the agent's status
AssignTaskErrorNoStatusCheck(a) ==
    IF ~AgentExists(a) THEN "agent_not_found" ELSE "none"

\* the error TaskService.assign_task raises for agent a of a store with agents
\* ags, "none" when it passes
AssignTaskErrorIn(ags, a) ==
    IF a \notin DOMAIN ags THEN "agent_not_found"
    ELSE IF ags[a].status # "active" THEN "agent_not_active"
    ELSE "none"

\* the same in the store as it is now
AssignTaskError(a) == AssignTaskErrorIn(agents, a)

\* TaskService.assign_task
assign_task(t, a) ==
    /\ LET err == AssignTaskError(a) IN
       /\ tasks' = IF err = "none" /\ TaskExists(t)
                   THEN [tasks EXCEPT ![t].assigned_agent_id = a, ![t].status = "assigned"]
                   ELSE tasks
       /\ lastOp' = Op("assign_task", t, a, err)
    /\ roundtrip' = Forget(t)
    /\ UNCHANGED <<deps, agents, relationships, memories, now>>
    /\ UNCHANGED others

\* TaskService.start_task
start_task(t) ==
    /\ now < MaxTime
    /\ IF TaskExists(t)
       THEN /\ tasks' = [tasks EXCEPT ![t].status = "in_progress", ![t].started_at = now]
            /\ roundtrip' = [roundtrip EXCEPT
                                ![t] = IF @ = "created" THEN "started" ELSE "none"]
            /\ now' = now + 1
       ELSE UNCHANGED <<tasks, roundtrip, now>>
    /\ lastOp' = Op("start_task", t, 0, "none")
    /\ UNCHANGED <<deps, agents, relationships, memories>>
    /\ UNCHANGED others

\* the status complete_task writes:
\*   result.status.value if hasattr(result, 'status') else COMPLETED
\* kind "absent": the result has no status attribute; "enum": its status is a
\* TaskStatus member; "str": its status is a plain string, as the status field
\* of a TaskResult (StatusModel.status: str) is, and .value raises.
ResultStatus(kind, st) ==
    IF kind = "absent" THEN "completed"
    ELSE IF kind = "enum" THEN st
    ELSE "AttributeError"

\* TaskService._check_task_dependencies: the dependencies table afterwards
CheckTaskDependencies(completed_task_id) == deps

\* TaskService.complete_task
complete_task(t, success, kind, st) ==
    /\ now < MaxTime
    /\ LET status == ResultStatus(kind, st) IN
       IF ~TaskExists(t)
       THEN /\ lastOp' = [Op("complete_task", t, 0, "task_not_found") EXCEPT !.success = success]
            /\ UNCHANGED <<tasks, agents, deps, now>>
       ELSE IF status = "AttributeError"
       THEN /\ lastOp' = [Op("complete_task", t, 0, "attribute_error") EXCEPT !.success = success]
            /\ UNCHANGED <<tasks, agents, deps, now>>
       ELSE LET task == tasks[t]
                actual_duration == IF task.started_at # None
                                   THEN now - task.started_at ELSE None
            IN
            /\ tasks' = [tasks EXCEPT ![t].status = status,
                                      ![t].completed_at = now,
                                      ![t].actual_duration = actual_duration]
            /\ agents' = IF task.assigned_agent_id # None
                            /\ actual_duration # None /\ actual_duration # 0
                         THEN UpdatePerformanceMetrics(task.assigned_agent_id,
                                                       actual_duration,
                                                       status = "completed")
                         ELSE agents
            /\ deps' = CheckTaskDependencies(t)
            /\ now' = now + 1
            /\ lastOp' = [Op("complete_task", t, 0, "none") EXCEPT !.success = success]
    /\ roundtrip' = Forget(t)
    /\ UNCHANGED <<relationships, memories>>
    /\ UNCHANGED others

\* TaskService.fail_task
fail_task(t) ==
    /\ now < MaxTime
    /\ IF ~TaskExists(t)
       THEN /\ lastOp' = Op("fail_task", t, 0, "task_not_found")
            /\ UNCHANGED <<tasks, agents, now>>
       ELSE LET task == tasks[t]
                actual_duration == IF task.started_at # None
                                   THEN now - task.started_at ELSE None
            IN
            /\ task.retry_count < MaxRetryCount
            /\ tasks' = [tasks EXCEPT ![t].status = "failed",
                                      ![t].completed_at = now,
                                      ![t].actual_duration = actual_duration,
                                      ![t].retry_count = task.retry_count + 1]
            /\ agents' = IF task.assigned_agent_id # None
                            /\ actual_duration # None /\ actual_duration # 0
                         THEN UpdatePerformanceMetrics(task.assigned_agent_id,
                                                       actual_duration, FALSE)
                         ELSE agents
            /\ now' = now + 1
            /\ lastOp' = Op("fail_task", t, 0, "none")
    /\ roundtrip' = Forget(t)
    /\ UNCHANGED <<deps, relationships, memories>>
    /\ UNCHANGED others

\* retry_task without its check that the task is failed
RetryTaskErrorNoStatusCheck(task) ==
    IF task.retry_count >= task.max_retries THEN "retry_limit" ELSE "none"

\* the error TaskService.retry_task raises for a stored task, "none" when it passes
RetryTaskError(task) ==
    IF task.retry_count >= task.max_retries THEN "retry_limit"
    ELSE IF task.status # "failed" THEN "not_failed"
    ELSE "none"

\* TaskService.retry_task
retry_task(t) ==
    /\ IF ~TaskExists(t)
       THEN /\ lastOp' = Op("retry_task", t, 0, "task_not_found")
            /\ UNCHANGED <<tasks, retried>>
       ELSE LET err == RetryTaskError(tasks[t]) IN
            /\ err = "none" => retried[t] < MaxRetryCount
            /\ tasks' = IF err = "none"
                        THEN [tasks EXCEPT ![t].status = "queued",
                                           ![t].started_at = None,
                                           ![t].completed_at = None,
                                           ![t].actual_duration = None]
                        ELSE tasks
            /\ retried' = IF err = "none" THEN [retried EXCEPT ![t] = @ + 1] ELSE retried
            /\ lastOp' = Op("retry_task", t, 0, err)
    /\ roundtrip' = Forget(t)
    /\ UNCHANGED <<deps, agents, relationships, memories, now>>
    /\ UNCHANGED <<foreign_keys, calls, supplied, traversal>>

\* ------------------------------------------------------ dependencies
\* the TaskDependency row built by TaskService.create_task_dependency
NewDependency(dependent, dependency, type, blocking, critical) ==
    [dependent_task_id |-> dependent,
     dependency_task_id |-> dependency,
     dependency_type |-> type,
     is_blocking |-> blocking,
     is_critical |-> critical,
     is_satisfied |-> FALSE,
     satisfaction_timestamp |-> None,
     status |-> "created"]

\* the table without its check constraint dependent_task_id != dependency_task_id
DependencyRowAcceptedNoCheck(row) ==
    /\ foreign_keys => TaskExists(row.dependent_task_id)
    /\ foreign_keys => TaskExists(row.dependency_task_id)
    /\ \A d \in DOMAIN deps :
          ~ /\ deps[d].dependent_task_id = row.dependent_task_id
            /\ deps[d].dependency_task_id = row.dependency_task_id
            /\ deps[d].dependency_type = row.dependency_type

\* TaskDependencyTable.__table_args__ and its foreign keys: whether the table
\* accepts the row
DependencyRowAccepted(row) ==
    /\ foreign_keys => TaskExists(row.dependent_task_id)
    /\ foreign_keys => TaskExists(row.dependency_task_id)
    /\ row.dependent_task_id # row.dependency_task_id
    /\ \A d \in DOMAIN deps :
          ~ /\ deps[d].dependent_task_id = row.dependent_task_id
            /\ deps[d].dependency_task_id = row.dependency_task_id
            /\ deps[d].dependency_type = row.dependency_type

\* TaskService.create_task_dependency
create_task_dependency(dependent, dependency, blocking, critical) ==
    /\ NextDepId \in DepIds
    /\ LET d == NextDepId
           row == NewDependency(dependent, dependency, "finish_to_start", blocking, critical)
       IN IF DependencyRowAccepted(row)
          THEN /\ deps' = deps @@ (d :> row)
               /\ lastOp' = [Op("create_task_dependency", d, 0, "none")
                                EXCEPT !.arg = <<dependent, dependency>>]
          ELSE /\ lastOp' = [Op("create_task_dependency", 0, 0, "integrity_error")
                                EXCEPT !.arg = <<dependent, dependency>>]
               /\ UNCHANGED deps
    /\ UNCHANGED <<tasks, agents, relationships, memories, now, roundtrip>>
    /\ UNCHANGED others

\* whether the task_dependencies table of a store with tasks ts and
\* dependencies ds accepts the row
DependencyRowAcceptedIn(ts, ds, row) ==
    /\ foreign_keys => row.dependent_task_id \in DOMAIN ts
    /\ foreign_keys => row.dependency_task_id \in DOMAIN ts
    /\ row.dependent_task_id # row.dependency_task_id
    /\ \A d \in DOMAIN ds :
          ~ /\ ds[d].dependent_task_id = row.dependent_task_id
            /\ ds[d].dependency_task_id = row.dependency_task_id
            /\ ds[d].dependency_type = row.dependency_type

\* The entries of a subtask spec's "dependencies" list as decompose_task
\* reads them: kind "dict" is a dict whose task_id is an id known to the
\* caller or absent (None); kind "str" is an entry that is not a dict (the
\* sequential plan lists task names), on which dep_spec.get raises.
DependencyEntries(known) ==
    {[kind |-> "dict", task_id |-> x] : x \in known \cup {None, Missing}}
        \cup {[kind |-> "str", task_id |-> None]}

\* the subtask specs of the modelled decompose_task calls: a task type, a
\* department ("none" when the spec has none) and at most one dependency entry
SubtaskSpec(task_type, department, dependencies) ==
    [task_type |-> task_type, department |-> department, dependencies |-> dependencies]

\* TaskService.decompose_task from its i-th spec on, in a store that holds
\* tasks ts and dependencies ds: the store when the call returns or raises,
\* the error, and the subtasks created.  Each create_task and
\* create_task_dependency commits in a session of its own, so what was
\* created before an error stays.
RECURSIVE Decompose(_, _, _, _, _, _, _)
Decompose(task_id, subtask_specs, i, ts, ags, ds, subtasks) ==
    IF i > Len(subtask_specs)
    THEN [tasks |-> ts, deps |-> ds, err |-> "none", subtasks |-> subtasks]
    ELSE
    LET spec == subtask_specs[i]
        row == NewTaskIn(ts, None, task_id, spec.task_type)
        t == Cardinality(DOMAIN ts) + 1
        ts1 == ts @@ (t :> row)
        entries == spec.dependencies
        entry == entries[1]
        d == Cardinality(DOMAIN ds) + 1
        drow == NewDependency(t, entry.task_id, "finish_to_start", TRUE, FALSE)
    IN  IF ~TaskRowAcceptedIn(ts, ags, row)
        THEN [tasks |-> ts, deps |-> ds, err |-> "integrity_error", subtasks |-> subtasks]
        ELSE IF Len(entries) = 0
        THEN Decompose(task_id, subtask_specs, i + 1, ts1, ags, ds, Append(subtasks, t))
        ELSE IF entry.kind = "str"
        THEN [tasks |-> ts1, deps |-> ds, err |-> "attribute_error",
              subtasks |-> Append(subtasks, t)]
        ELSE IF entry.task_id = None
        THEN Decompose(task_id, subtask_specs, i + 1, ts1, ags, ds, Append(subtasks, t))
        ELSE IF ~DependencyRowAcceptedIn(ts1, ds, drow)
        THEN [tasks |-> ts1, deps |-> ds, err |-> "integrity_error",
              subtasks |-> Append(subtasks, t)]
        ELSE Decompose(task_id, subtask_specs, i + 1, ts1, ags, ds @@ (d :> drow),
                       Append(subtasks, t))

\* roundtrip extended to the tasks of ts: none of the new ones was created
\* with an agent
RoundtripOver(ts) ==
    [t \in DOMAIN ts |-> IF t \in DOMAIN roundtrip THEN roundtrip[t] ELSE "none"]

\* TaskService.decompose_task
decompose_task(task_id, subtask_specs) ==
    /\ Cardinality(DOMAIN tasks) + Len(subtask_specs) <= MaxTasks
    /\ Cardinality(DOMAIN deps) + Len(subtask_specs) <= MaxDeps
    /\ LET r == Decompose(task_id, subtask_specs, 1, tasks, agents, deps, <<>>) IN
       /\ tasks' = r.tasks
       /\ deps' = r.deps
       /\ roundtrip' = RoundtripOver(r.tasks)
       /\ lastOp' = [Op("decompose_task", task_id, 0, r.err)
                        EXCEPT !.arg = <<Len(subtask_specs), Len(r.subtasks)>>]
    /\ UNCHANGED <<agents, relationships, memories, now>>
    /\ UNCHANGED others

\* satisfy_dependency without its "if not self.is_satisfied" guard
SatisfyDependencyUnguarded(dep) ==
    [dep EXCEPT !.is_satisfied = TRUE,
                !.satisfaction_timestamp = now,
                !.status = "satisfied"]

\* TaskDependency.satisfy_dependency: the entity afterwards
SatisfyDependency(dep) ==
    IF ~dep.is_satisfied
    THEN [dep EXCEPT !.is_satisfied = TRUE,
                     !.satisfaction_timestamp = now,
                     !.status = "satisfied"]
    ELSE dep

\* TaskDependency.satisfy_dependency applied to a stored dependency
satisfy_dependency(d) ==
    /\ DepExists(d)
    /\ now < MaxTime
    /\ deps' = [deps EXCEPT ![d] = SatisfyDependency(@)]
    /\ now' = now + 1
    /\ lastOp' = Op("satisfy_dependency", d, 0, "none")
    /\ UNCHANGED <<tasks, agents, relationships, memories, roundtrip>>
    /\ UNCHANGED others

\* TaskRepository.get_ready_tasks: the ids of the rows the query selects
get_ready_tasks ==
    {t \in DOMAIN tasks :
        /\ tasks[t].status \in {"created", "queued", "assigned"}
        /\ t \notin {deps[d].dependent_task_id :
                        d \in {e \in DOMAIN deps : deps[e].is_satisfied = FALSE}}}

\* Task.is_ready_to_execute is not used by the service: Task.depends_on is
\* never written, the dependencies live in the task_dependencies table.

\* ------------------------------------------------------ specification
\* the subtask_specs of the modelled decompose_task calls: one or two specs
\* without department, each with no dependency entry or one
SubtaskSpecInputs ==
    LET entries == {<<>>} \cup {<<e>> : e \in DependencyEntries(DOMAIN tasks)}
        specs == {SubtaskSpec("subtask", "none", es) : es \in entries}
    IN {<<x>> : x \in specs} \cup {<<x, y>> : x \in specs, y \in specs}

\* AgentService.get_conductor_agent: the first agent of type conductor, None
\* when there is none
get_conductor_agent ==
    LET conductors == {a \in DOMAIN agents : agents[a].agent_type = "conductor"} IN
    IF conductors = {} THEN None
    ELSE CHOOSE a \in conductors : \A b \in conductors : a <= b

\* the first department head of the store with agents ags whose specialization
\* is dept, None when there is none (_provision_department_heads)
ExistingDepartmentHead(ags, dept) ==
    LET heads == {a \in DOMAIN ags : /\ ags[a].agent_type = "department_head"
                                     /\ ags[a].specialization = dept} IN
    IF heads = {} THEN None
    ELSE CHOOSE a \in heads : \A b \in heads : a <= b

\* complexity_score of _analyze_task_complexity, in hundredths
ComplexityScore(complexity) ==
    CASE complexity = "low" -> 30
      [] complexity = "medium" -> 60
      [] complexity = "high" -> 80
      [] complexity = "extreme" -> 95
      [] OTHER -> 60

\* department_mapping of _analyze_task_complexity, in the order of the dict
DepartmentMapping ==
    << [department |-> "software_development",
        keywords |-> {"programming", "coding", "development"}],
       [department |-> "data_analysis", keywords |-> {"analysis", "data", "statistics"}],
       [department |-> "research", keywords |-> {"research", "investigation", "study"}],
       [department |-> "creative", keywords |-> {"creative", "design", "artistic"}],
       [department |-> "technical_writing", keywords |-> {"writing", "documentation"}],
       [department |-> "project_management", keywords |-> {"management", "coordination"}],
       [department |-> "quality_assurance",
        keywords |-> {"testing", "quality", "validation"}] >>

\* the departments of a sequence of mapping entries
RECURSIVE DepartmentsOf(_)
DepartmentsOf(entries) ==
    IF entries = <<>> THEN <<>>
    ELSE <<Head(entries).department>> \o DepartmentsOf(Tail(entries))

\* required_departments of _analyze_task_complexity.  mentioned: the keywords
\* that occur in task.description.lower()
RequiredDepartments(mentioned, required_expertise) ==
    LET Matches(entry) == entry.keywords \cap (mentioned \cup required_expertise) # {}
        found == DepartmentsOf(SelectSeq(DepartmentMapping, Matches))
    IN IF found = <<>> THEN <<"general_specialist">> ELSE found

\* OrchestrationService._recommend_decomposition_strategy, the score in
\* hundredths
RecommendDecompositionStrategy(complexity_score) ==
    IF complexity_score < 40 THEN "sequential"
    ELSE IF complexity_score < 70 THEN "parallel"
    ELSE "hierarchical"

\* OrchestrationService._analyze_task_complexity
\* estimated_subtasks: max(2, int(complexity_score * 10))
AnalyzeTaskComplexity(complexity, mentioned, required_expertise) ==
    LET complexity_score == ComplexityScore(complexity)
        tenths == complexity_score \div 10
    IN [complexity_score |-> complexity_score,
        required_departments |-> RequiredDepartments(mentioned, required_expertise),
        estimated_subtasks |-> IF tenths > 2 THEN tenths ELSE 2,
        recommended_strategy |-> RecommendDecompositionStrategy(complexity_score)]

\* f"{dept}_task" and f"{phase}_task" of _create_decomposition_plan
TaskTypeOf(name) ==
    CASE name = "software_development" -> "software_development_task"
      [] name = "data_analysis" -> "data_analysis_task"
      [] name = "research" -> "research_task"
      [] name = "creative" -> "creative_task"
      [] name = "technical_writing" -> "technical_writing_task"
      [] name = "project_management" -> "project_management_task"
      [] name = "quality_assurance" -> "quality_assurance_task"
      [] name = "general_specialist" -> "general_specialist_task"
      [] name = "planning" -> "planning_task"
      [] name = "execution" -> "execution_task"
      [] name = "review" -> "review_task"
      [] name = "finalization" -> "finalization_task"

\* phases of _create_decomposition_plan
Phases == <<"planning", "execution", "review", "finalization">>

\* subtask_specs of _create_decomposition_plan.  A sequential phase after the
\* first names the phase before it, as a string, in its dependencies.
CreateDecompositionPlan(analysis) ==
    LET strategy == analysis.recommended_strategy
        estimated_subtasks == analysis.estimated_subtasks
        departments == analysis.required_departments
        nphases == IF estimated_subtasks < Len(Phases) THEN estimated_subtasks
                   ELSE Len(Phases)
    IN [strategy |-> strategy,
        subtask_specs |->
            IF strategy = "sequential"
            THEN [i \in 1..nphases |->
                    SubtaskSpec(TaskTypeOf(Phases[i]), "none",
                                IF i > 1 THEN <<[kind |-> "str", task_id |-> None]>>
                                ELSE <<>>)]
            ELSE IF strategy = "parallel"
            THEN [i \in 1..estimated_subtasks |-> SubtaskSpec("component_task", "none", <<>>)]
            ELSE [i \in 1..Len(departments) |->
                    SubtaskSpec(TaskTypeOf(departments[i]), departments[i], <<>>)]]

\* OrchestrationService._provision_department_heads from the i-th department
\* on, in a store with agents ags and memories mems: the store afterwards and
\* the head of each department.  A head it creates has no parent and four
\* core memories, and the status create_agent gives every agent.
RECURSIVE ProvisionDepartmentHeads(_, _, _, _, _)
ProvisionDepartmentHeads(ags, mems, required_departments, i, department_heads) ==
    IF i > Len(required_departments)
    THEN [agents |-> ags, memories |-> mems, department_heads |-> department_heads]
    ELSE
    LET dept == required_departments[i]
        existing == ExistingDepartmentHead(ags, dept)
        a == Cardinality(DOMAIN ags) + 1
    IN  IF existing # None
        THEN ProvisionDepartmentHeads(ags, mems, required_departments, i + 1,
                                      Append(department_heads, existing))
        ELSE ProvisionDepartmentHeads(ags @@ (a :> NewAgent("department_head", dept, None)),
                                      mems @@ (a :> 4), required_departments, i + 1,
                                      Append(department_heads, a))

\* the assignment loop of _execute_workflow from the i-th subtask on, in a
\* store with tasks ts and agents ags: the tasks when the loop ends or
\* assign_task raises, and the error.  The i-th subtask was made from the
\* i-th spec, found again by its name; department_heads[k] is the head of
\* required_departments[k].
RECURSIVE AssignSubtasks(_, _, _, _, _, _, _)
AssignSubtasks(ts, ags, subtasks, subtask_specs, required_departments, department_heads, i) ==
    IF i > Len(subtasks) THEN [tasks |-> ts, err |-> "none"]
    ELSE
    LET dept == subtask_specs[i].department
        known == {k \in 1..Len(required_departments) : required_departments[k] = dept}
    IN  IF dept = "none" \/ known = {}
        THEN AssignSubtasks(ts, ags, subtasks, subtask_specs, required_departments,
                            department_heads, i + 1)
        ELSE
        LET head == department_heads[CHOOSE k \in known : TRUE]
            err == AssignTaskErrorIn(ags, head)
        IN  IF err # "none" THEN [tasks |-> ts, err |-> err]
            ELSE AssignSubtasks(
                     [ts EXCEPT ![subtasks[i]].assigned_agent_id = head,
                                ![subtasks[i]].status = "assigned"],
                     ags, subtasks, subtask_specs, required_departments,
                     department_heads, i + 1)

\* OrchestrationService.orchestrate_workflow after the conductor lookup of
\* _get_or_create_conductor returned conductor_found: the store when the call
\* returns or raises.  Every service call inside commits on its own, so what
\* was written before an error stays.
Orchestrate(conductor_found, complexity, mentioned, required_expertise) ==
    LET created == conductor_found = None
        conductor == IF created THEN NextAgentId ELSE conductor_found
        ags0 == IF created
                THEN agents @@ (conductor :>
                         NewAgent("conductor", "workflow_orchestration", None))
                ELSE agents
        mems0 == IF created THEN memories @@ (conductor :> 4) ELSE memories
        main_task == NextTaskId
        ts0 == tasks @@ (main_task :> NewTask(conductor, None, "workflow"))
        analysis == AnalyzeTaskComplexity(complexity, mentioned, required_expertise)
        decomposition_plan == CreateDecompositionPlan(analysis)
        provisioned == ProvisionDepartmentHeads(ags0, mems0,
                                                analysis.required_departments, 1, <<>>)
        decomposed == Decompose(main_task, decomposition_plan.subtask_specs, 1, ts0,
                                provisioned.agents, deps, <<>>)
        assigned == IF decomposed.err # "none"
                    THEN [tasks |-> decomposed.tasks, err |-> decomposed.err]
                    ELSE AssignSubtasks(decomposed.tasks, provisioned.agents,
                                        decomposed.subtasks,
                                        decomposition_plan.subtask_specs,
                                        analysis.required_departments,
                                        provisioned.department_heads, 1)
        started == assigned.err = "none"
    IN [agents |-> provisioned.agents,
        memories |-> provisioned.memories,
        tasks |-> IF started
                  THEN [assigned.tasks EXCEPT ![main_task].status = "in_progress",
                                              ![main_task].started_at = now]
                  ELSE assigned.tasks,
        deps |-> decomposed.deps,
        started |-> started,
        err |-> assigned.err,
        conductor |-> conductor,
        main_task |-> main_task,
        analysis |-> analysis]

\* OrchestrationService.orchestrate_workflow up to the first await of
\* _get_or_create_conductor: the lookup of the conductor.  Caller p keeps what
\* it found; other calls run before it goes on.
orchestrate_workflow_lookup(p, complexity, mentioned, required_expertise) ==
    /\ calls[p].pc = "idle"
    /\ calls' = [calls EXCEPT ![p] = [Idle EXCEPT !.pc = "conductor_looked_up",
                                                  !.conductor = get_conductor_agent,
                                                  !.complexity = complexity,
                                                  !.mentioned = mentioned,
                                                  !.required_expertise = required_expertise]]
    /\ lastOp' = Op("get_conductor_agent", 0, get_conductor_agent, "none")
    /\ UNCHANGED <<tasks, deps, agents, relationships, memories, now, roundtrip>>
    /\ UNCHANGED <<foreign_keys, supplied, traversal, retried>>

\* OrchestrationService.orchestrate_workflow from the lookup on: the conductor
\* is created when the lookup found none, then the main task, the analysis,
\* the plan, the department heads and _execute_workflow.
orchestrate_workflow(p) ==
    /\ calls[p].pc = "conductor_looked_up"
    /\ now < MaxTime
    /\ LET r == Orchestrate(calls[p].conductor, calls[p].complexity, calls[p].mentioned,
                            calls[p].required_expertise) IN
       /\ Cardinality(DOMAIN r.agents) <= MaxAgents
       /\ Cardinality(DOMAIN r.tasks) <= MaxTasks
       /\ Cardinality(DOMAIN r.deps) <= MaxDeps
       /\ agents' = r.agents
       /\ memories' = r.memories
       /\ tasks' = r.tasks
       /\ deps' = r.deps
       /\ roundtrip' = [RoundtripOver(r.tasks) EXCEPT
                           ![r.main_task] = IF r.started THEN "started" ELSE "created"]
       /\ now' = IF r.started THEN now + 1 ELSE now
       /\ lastOp' = [Op("orchestrate_workflow", r.main_task, r.conductor, r.err) EXCEPT
                        !.arg = <<calls[p].complexity, calls[p].required_expertise,
                                  r.analysis.recommended_strategy,
                                  r.analysis.required_departments>>]
    /\ calls' = [calls EXCEPT ![p] = Idle]
    /\ UNCHANGED <<relationships, foreign_keys, supplied, traversal, retried>>

\* OrchestrationService._get_available_agents: a list of agents, given as
\* records of capabilities, success_rate in percent and current_load
GetAvailableAgents == <<>>

\* OrchestrationService._find_capable_agents: the positions in agent_list of
\* the agents capable of the task
FindCapableAgents(task, agent_list) == <<>>

\* OrchestrationService._select_optimal_agent
SelectOptimalAgent(task, capable_agents) ==
    IF capable_agents # <<>> THEN capable_agents[1] ELSE None

\* OrchestrationService._recruit_or_delegate
RecruitOrDelegate(task) == None

\* the loop of assign_optimal_agents from the i-th task on: the assignments,
\* pairs of the position of a task and the position of its agent
RECURSIVE AssignFrom(_, _, _, _)
AssignFrom(task_list, agent_list, i, assignments) ==
    IF i > Len(task_list) THEN assignments
    ELSE
    LET capable_agents == FindCapableAgents(task_list[i], agent_list)
        optimal_agent == IF capable_agents = <<>> THEN RecruitOrDelegate(task_list[i])
                         ELSE SelectOptimalAgent(task_list[i], capable_agents)
    IN  AssignFrom(task_list, agent_list, i + 1,
                   IF optimal_agent # None THEN Append(assignments, <<i, optimal_agent>>)
                   ELSE assignments)

\* OrchestrationService.assign_optimal_agents: it reads no table and writes
\* none; the call and what it returned are kept in lastOp
assign_optimal_agents(task_list, available_agents) ==
    /\ LET agent_list == IF available_agents = <<>> THEN GetAvailableAgents
                         ELSE available_agents
       IN lastOp' = [Op("assign_optimal_agents", 0, 0, "none") EXCEPT
                        !.arg = <<task_list, available_agents,
                                  AssignFrom(task_list, agent_list, 1, <<>>)>>]
    /\ UNCHANGED <<tasks, deps, agents, relationships, memories, now, roundtrip>>
    /\ UNCHANGED others

\* the capabilities, tasks and agents of the modelled assign_optimal_agents
\* calls; AgentA and AgentB are the two agents of the specification's example
Capabilities == {"python", "testing"}
AgentA == [capabilities |-> {"python"}, success_rate |-> 90, current_load |-> 2]
AgentB == [capabilities |-> {"python", "testing"}, success_rate |-> 50, current_load |-> 0]
AgentPool ==
    {AgentA, AgentB,
     [capabilities |-> {"python", "testing"}, success_rate |-> 90, current_load |-> 2],
     [capabilities |-> {"testing"}, success_rate |-> 50, current_load |-> 0]}
TaskPool == {[required_capabilities |-> c] : c \in SUBSET Capabilities}

\* the sequences over S of length lo to hi
SeqsOf(S, lo, hi) == UNION {[1..n -> S] : n \in lo..hi}

\* the requests of the modelled orchestrate_workflow calls: the expertise
\* named, and the keywords in the description (none, as in
\* "Build and test a REST API")
ExpertiseInputs == SUBSET {"programming", "testing"}

\* OrchestrationService._analyze_task_failure
AnalyzeTaskFailure(task, error_context) == [failure_type |-> "unknown"]

\* _determine_recovery_strategy returning a strategy handle_task_failure does
\* not know
DetermineRecoveryStrategyUnlisted(task, analysis) == "ignore"

\* OrchestrationService._determine_recovery_strategy
DetermineRecoveryStrategy(task, analysis) == "retry"

\* OrchestrationService._retry_with_recovery, _reassign_task,
\* _decompose_failed_task, _escalate_task and _abort_task_chain
RetryWithRecovery(task, analysis) == [action |-> "retry", status |-> "initiated"]
ReassignTask(task, analysis) == [action |-> "reassign", status |-> "initiated"]
DecomposeFailedTask(task) == [action |-> "decompose", status |-> "initiated"]
EscalateTask(task, analysis) == [action |-> "escalate", status |-> "initiated"]
AbortTaskChain(task) == [action |-> "abort", status |-> "completed"]

\* the recovery_result of OrchestrationService.handle_task_failure
HandleTaskFailure(failed_task, error_context) ==
    LET failure_analysis == AnalyzeTaskFailure(failed_task, error_context)
        recovery_strategy == DetermineRecoveryStrategy(failed_task, failure_analysis)
    IN [strategy |-> recovery_strategy,
        actions_taken |->
            IF recovery_strategy = "retry"
            THEN <<RetryWithRecovery(failed_task, failure_analysis)>>
            ELSE IF recovery_strategy = "reassign"
            THEN <<ReassignTask(failed_task, failure_analysis)>>
            ELSE IF recovery_strategy = "decompose"
            THEN <<DecomposeFailedTask(failed_task)>>
            ELSE IF recovery_strategy = "escalate"
            THEN <<EscalateTask(failed_task, failure_analysis)>>
            ELSE <<AbortTaskChain(failed_task)>>]

\* OrchestrationService.handle_task_failure for the stored task t: it writes
\* nothing; the call and what it returned are kept in lastOp
handle_task_failure(t, error_context) ==
    /\ TaskExists(t)
    /\ lastOp' = [Op("handle_task_failure", t, 0, "none") EXCEPT
                     !.arg = <<error_context, HandleTaskFailure(tasks[t], error_context)>>]
    /\ UNCHANGED <<tasks, deps, agents, relationships, memories, now, roundtrip>>
    /\ UNCHANGED others

\* what the error_context of the modelled handle_task_failure calls reports
ErrorContexts == {"timeout", "exceeded_complexity", "agent_error"}

\* the cancel_workflow endpoint: it awaits orchestration_service.cancel_workflow,
\* an attribute OrchestrationService does not have, so the lookup raises
\* AttributeError, which the endpoint turns into an HTTP 500 error.  Nothing
\* is read or written.
cancel_workflow(workflow_id) ==
    /\ lastOp' = Op("cancel_workflow", workflow_id, 0, "attribute_error")
    /\ UNCHANGED <<tasks, deps, agents, relationships, memories, now, roundtrip>>
    /\ UNCHANGED others

\* OrchestrationService._analyze_task_complexity called on its own: it writes
\* nothing; the call and the analysis it returned are kept in lastOp
analyze_task_complexity(complexity, mentioned, required_expertise) ==
    /\ lastOp' = [Op("analyze_task_complexity", 0, 0, "none") EXCEPT
                     !.arg = <<complexity, mentioned, required_expertise,
                               AnalyzeTaskComplexity(complexity, mentioned,
                                                     required_expertise)>>]
    /\ UNCHANGED <<tasks, deps, agents, relationships, memories, now, roundtrip>>
    /\ UNCHANGED others

\* the arguments of the modelled _analyze_task_complexity calls: the four
\* labels and one that is none of them, descriptions that mention some of two
\* keywords, and expertise that holds keywords and a word that is none
ComplexityInputs == {"low", "medium", "high", "extreme", "unrated"}
MentionedInputs == SUBSET {"data", "design"}
AnalysisExpertiseInputs == SUBSET {"programming", "testing", "cooking"}

\* _should_decompose_task without its delegation_level < max_depth guard
ShouldDecomposeTaskAtAnyDepth(task, max_depth) ==
    /\ task.task_type \in {"workflow", "complex_task"}
    /\ task.long_description

\* OrchestrationService._should_decompose_task.  long_description:
\* len(task.description) > 100
ShouldDecomposeTask(task, max_depth) ==
    /\ task.delegation_level < max_depth
    /\ task.task_type \in {"workflow", "complex_task"}
    /\ task.long_description

\* OrchestrationService._decompose_sequential, _decompose_parallel,
\* _decompose_hierarchical and _decompose_hybrid
DecomposeSequential(task) == <<>>
DecomposeParallel(task) == <<>>
DecomposeHierarchical(task) == <<>>
DecomposeHybrid(task) == <<>>

\* OrchestrationService.decompose_complex_task entered at recursion depth
\* depth, and its loop over the subtasks from the i-th on: the tasks returned,
\* the deepest recursion depth entered and the tasks that were decomposed
RECURSIVE DecomposeComplexTask(_, _, _, _)
RECURSIVE DecomposeSubtasks(_, _, _, _, _, _)
DecomposeComplexTask(task, max_depth, strategy, depth) ==
    IF ~ShouldDecomposeTask(task, max_depth)
    THEN [tasks |-> <<task>>, depth |-> depth, decomposed |-> {}]
    ELSE LET subtasks == IF strategy = "sequential" THEN DecomposeSequential(task)
                         ELSE IF strategy = "parallel" THEN DecomposeParallel(task)
                         ELSE IF strategy = "hierarchical" THEN DecomposeHierarchical(task)
                         ELSE DecomposeHybrid(task)
         IN DecomposeSubtasks(subtasks, 1, max_depth, strategy, depth,
                              [tasks |-> <<>>, depth |-> depth, decomposed |-> {task}])

DecomposeSubtasks(subtasks, i, max_depth, strategy, depth, acc) ==
    IF i > Len(subtasks) THEN acc
    ELSE IF subtasks[i].delegation_level < max_depth
    THEN LET sub == DecomposeComplexTask(subtasks[i], max_depth, strategy, depth + 1) IN
         DecomposeSubtasks(subtasks, i + 1, max_depth, strategy, depth,
                           [tasks |-> acc.tasks \o sub.tasks,
                            depth |-> IF sub.depth > acc.depth THEN sub.depth ELSE acc.depth,
                            decomposed |-> acc.decomposed \cup sub.decomposed])
    ELSE DecomposeSubtasks(subtasks, i + 1, max_depth, strategy, depth,
                           [acc EXCEPT !.tasks = Append(acc.tasks, subtasks[i])])

\* OrchestrationService.decompose_complex_task: it writes nothing; the call
\* and what it returned are kept in lastOp
decompose_complex_task(task, max_depth, strategy) ==
    /\ lastOp' = [Op("decompose_complex_task", 0, 0, "none") EXCEPT
                     !.arg = <<task, max_depth, strategy,
                               DecomposeComplexTask(task, max_depth, strategy, 0)>>]
    /\ UNCHANGED <<tasks, deps, agents, relationships, memories, now, roundtrip>>
    /\ UNCHANGED others

\* the tasks and strategies of the modelled decompose_complex_task calls
ComplexTaskInputs ==
    [delegation_level : 0..MaxDelegationLevel,
     task_type : {"workflow", "complex_task", "general"},
     long_description : BOOLEAN]
DecompositionStrategy == {"sequential", "parallel", "hierarchical", "hybrid"}

\* level_groups of compile_hierarchical_results: the results of each level
\* that has any, in the order given
LevelGroups(task_results) ==
    [level \in {task_results[i].delegation_level : i \in 1..Len(task_results)} |->
        SelectSeq(task_results, LAMBDA result : result.delegation_level = level)]

\* OrchestrationService._assess_result_quality, in hundredths
AssessResultQuality(results) == [i \in 1..Len(results) |-> 80]

\* OrchestrationService._resolve_result_conflicts
ResolveResultConflicts(results, quality_scores) == results

\* OrchestrationService._synthesize_level_results
SynthesizeLevelResults(results, parent_context) ==
    [synthesized |-> TRUE, results |-> results]

\* compiled_results.get(level): the synthesis of the level; None stands for
\* Python's None, an empty sequence for the default {}
GetCompiled(compiled_results, level, default) ==
    IF level \in DOMAIN compiled_results THEN compiled_results[level] ELSE default

\* the loop "for level in range(max_level, -1, -1)" of
\* compile_hierarchical_results from level on: compiled_results when it ends,
\* and the calls of _synthesize_level_results made, in order, each with its
\* level and the parent_context it was given
RECURSIVE CompileLevels(_, _, _, _)
CompileLevels(level_groups, level, compiled_results, syntheses) ==
    IF level < 0 THEN [compiled_results |-> compiled_results, syntheses |-> syntheses]
    ELSE IF level \notin DOMAIN level_groups
    THEN CompileLevels(level_groups, level - 1, compiled_results, syntheses)
    ELSE
    LET level_results == level_groups[level]
        quality_scores == AssessResultQuality(level_results)
        resolved_results == ResolveResultConflicts(level_results, quality_scores)
        parent_context == GetCompiled(compiled_results, level + 1, None)
        synthesized == SynthesizeLevelResults(resolved_results, parent_context)
    IN  CompileLevels(level_groups, level - 1,
                      compiled_results @@ (level :> synthesized),
                      Append(syntheses, [level |-> level,
                                         has_context |-> level + 1 \in DOMAIN compiled_results,
                                         context_level |-> IF level + 1 \in DOMAIN compiled_results
                                                           THEN level + 1 ELSE None]))

\* what compile_hierarchical_results computes: the final_result of
\* _create_final_synthesis and the syntheses made on the way
CompileHierarchicalResults(task_results) ==
    LET level_groups == LevelGroups(task_results)
        levels == DOMAIN level_groups
        max_level == IF levels # {} THEN CHOOSE l \in levels : \A k \in levels : k <= l
                     ELSE 0
        compiled == CompileLevels(level_groups, max_level, <<>>, <<>>)
    IN [status |-> "completed",
        final_result |-> GetCompiled(compiled.compiled_results, 0, <<>>),
        compiled_results |-> compiled.compiled_results,
        syntheses |-> compiled.syntheses]

\* OrchestrationService.compile_hierarchical_results: it writes nothing; the
\* call and what it computed are kept in lastOp
compile_hierarchical_results(task_results) ==
    /\ lastOp' = [Op("compile_hierarchical_results", 0, 0, "none") EXCEPT
                     !.arg = <<task_results, CompileHierarchicalResults(task_results)>>]
    /\ UNCHANGED <<tasks, deps, agents, relationships, memories, now, roundtrip>>
    /\ UNCHANGED others

\* the task_results of the modelled compile_hierarchical_results calls: up to
\* MaxResults results of levels up to MaxResultLevel
TaskResultInputs ==
    UNION {[1..n -> [delegation_level : 0..MaxResultLevel]] : n \in 0..MaxResults}

Next ==
    \/ \E type \in AgentType, specialization \in Specializations,
          parent \in {None, Missing} \cup DOMAIN agents, ncore \in 0..1 :
          create_agent(type, specialization, parent, ncore)
    \/ \E recruiting_agent_id \in {Missing} \cup DOMAIN agents,
          specialization \in Specializations, ncore \in {0, 2} :
          recruit_subordinate(recruiting_agent_id, specialization, ncore)
    \/ \E a \in AgentIds, status \in AgentStatusInputs : update_agent_status(a, status)
    \/ \E a \in AgentIds : deactivate_agent(a)
    \/ \E assigned \in {None, Missing} \cup DOMAIN agents,
          parent \in {None, Missing} \cup DOMAIN tasks :
          create_task(assigned, parent, "general")
    \/ \E task_id \in {Missing} \cup DOMAIN tasks : \E subtask_specs \in SubtaskSpecInputs :
          decompose_task(task_id, subtask_specs)
    \/ \E t \in TaskIds, a \in AgentIds : assign_task(t, a)
    \/ \E t \in TaskIds : start_task(t)
    \/ \E t \in TaskIds, success \in BOOLEAN, kind \in {"absent", "str", "enum"},
          st \in TaskStatus : complete_task(t, success, kind, st)
    \/ \E t \in TaskIds : fail_task(t)
    \/ \E t \in TaskIds : retry_task(t)
    \/ \E dependent \in {Missing} \cup DOMAIN tasks,
          dependency \in {Missing} \cup DOMAIN tasks, blocking \in BOOLEAN,
          critical \in BOOLEAN :
          create_task_dependency(dependent, dependency, blocking, critical)
    \/ \E d \in DepIds : satisfy_dependency(d)
    \/ \E p \in Procs, a \in AgentIds, task_duration \in 1..MaxDuration,
          success \in BOOLEAN :
          update_performance_metrics_read(p, a, task_duration, success)
    \/ \E p \in Procs : update_performance_metrics_write(p)
    \/ \E root_agent_id \in {Missing} \cup DOMAIN agents : get_agent_hierarchy(root_agent_id)
    \/ build_hierarchy
    \/ \E p \in Procs, complexity \in {"low", "medium", "high", "extreme"},
          required_expertise \in ExpertiseInputs :
          orchestrate_workflow_lookup(p, complexity, {}, required_expertise)
    \/ \E p \in Procs : orchestrate_workflow(p)
    \/ \E task_list \in SeqsOf(TaskPool, 1, MaxAssignTasks),
          available_agents \in SeqsOf(AgentPool, 0, MaxCandidates) :
          assign_optimal_agents(task_list, available_agents)
    \/ \E t \in DOMAIN tasks, error_context \in ErrorContexts :
          handle_task_failure(t, error_context)
    \/ \E workflow_id \in DOMAIN tasks : cancel_workflow(workflow_id)
    \/ \E complexity \in ComplexityInputs, mentioned \in MentionedInputs,
          required_expertise \in AnalysisExpertiseInputs :
          analyze_task_complexity(complexity, mentioned, required_expertise)
    \/ \E task \in ComplexTaskInputs, max_depth \in 0..MaxDelegationLevel,
          strategy \in DecompositionStrategy :
          decompose_complex_task(task, max_depth, strategy)
    \/ \E task_results \in TaskResultInputs : compile_hierarchical_results(task_results)

Spec == Init /\ [][Next]_vars

\* The life cycle of single tasks and the agents they are assigned to: the
\* calls of Next on a store of at most LifecycleTasks tasks and
\* LifecycleAgents agents, no dependencies, foreign keys enforced.
\* A result carries one of ResultStatusInputs as its status.
NextLifecycle ==
    \/ /\ Cardinality(DOMAIN agents) < LifecycleAgents
       /\ create_agent("specialist", "general", None, 0)
    \/ \E a \in LifecycleAgentIds, status \in AgentStatusInputs : update_agent_status(a, status)
    \/ \E a \in LifecycleAgentIds : deactivate_agent(a)
    \/ \E assigned \in {None} \cup LifecycleAgentIds :
          /\ Cardinality(DOMAIN tasks) < LifecycleTasks
          /\ create_task(assigned, None, "general")
    \/ \E t \in LifecycleTaskIds, a \in LifecycleAgentIds : assign_task(t, a)
    \/ \E t \in LifecycleTaskIds : start_task(t)
    \/ \E t \in LifecycleTaskIds, success \in BOOLEAN, kind \in {"absent", "str", "enum"},
          st \in ResultStatusInputs : complete_task(t, success, kind, st)
    \/ \E t \in LifecycleTaskIds : fail_task(t)
    \/ \E t \in LifecycleTaskIds : retry_task(t)

SpecLifecycle == InitEnforced /\ [][NextLifecycle]_vars

\* Tasks and the dependencies between them: the calls of Next on a store of
\* at most DependencyTasks tasks without agents, foreign keys enforced, for
\* results that are successful exactly when they carry the status completed.
NextDependencies ==
    \/ /\ Cardinality(DOMAIN tasks) < DependencyTasks
       /\ create_task(None, None, "general")
    \/ \E dependent \in DependencyTaskIds, dependency \in DependencyTaskIds, blocking \in BOOLEAN :
          create_task_dependency(dependent, dependency, blocking, FALSE)
    \/ \E t \in DependencyTaskIds : start_task(t)
    \/ \E t \in DependencyTaskIds, st \in {"completed", "failed"} :
          complete_task(t, st = "completed", "enum", st)
    \/ \E t \in DependencyTaskIds : fail_task(t)
    \/ \E t \in DependencyTaskIds : retry_task(t)

SpecDependencies == InitEnforced /\ [][NextDependencies]_vars

\* The same store when callers also apply TaskDependency.satisfy_dependency
\* to the stored dependencies.
NextSatisfaction ==
    \/ NextDependencies
    \/ \E d \in DepIds : satisfy_dependency(d)

SpecSatisfaction == InitEnforced /\ [][NextSatisfaction]_vars

\* The performance metrics of one agent, updated by calls that follow one
\* another: a single caller, whose next call starts when its last has returned.
NextMetricsSequential ==
    \/ /\ Cardinality(DOMAIN agents) < LifecycleAgents
       /\ create_agent("specialist", "general", None, 0)
    \/ \E a \in LifecycleAgentIds, task_duration \in 1..MaxDuration, success \in BOOLEAN :
          update_performance_metrics_read(1, a, task_duration, success)
    \/ update_performance_metrics_write(1)

SpecMetricsSequential == InitEnforced /\ [][NextMetricsSequential]_vars

\* The same agent updated by the calls of several callers, which overlap.
NextMetricsConcurrent ==
    \/ /\ Cardinality(DOMAIN agents) < LifecycleAgents
       /\ create_agent("specialist", "general", None, 0)
    \/ \E p \in Procs, a \in LifecycleAgentIds, task_duration \in 1..MaxDuration,
          success \in BOOLEAN :
          update_performance_metrics_read(p, a, task_duration, success)
    \/ \E p \in Procs : update_performance_metrics_write(p)

SpecMetricsConcurrent == InitEnforced /\ [][NextMetricsConcurrent]_vars

\* Task trees: tasks created under stored tasks, under none and under ids
\* that name no task, one by one and by decomposition, on either database.
NextDecomposition ==
    \/ \E parent \in {None, Missing} \cup DOMAIN tasks :
          create_task(None, parent, "general")
    \/ \E task_id \in {Missing} \cup DOMAIN tasks : \E subtask_specs \in SubtaskSpecInputs :
          decompose_task(task_id, subtask_specs)

SpecDecomposition == Init /\ [][NextDecomposition]_vars

\* The agent hierarchy: a conductor, department heads and specialists created
\* under stored agents, under none and under ids that name no agent, and
\* specialists recruited, on either database.
NextRegistry ==
    \/ \E type \in {"conductor", "department_head", "specialist"},
          parent \in {None, Missing} \cup DOMAIN agents, ncore \in 0..1 :
          create_agent(type, "general", parent, ncore)
    \/ \E recruiting_agent_id \in {Missing} \cup DOMAIN agents :
          recruit_subordinate(recruiting_agent_id, "general", 2)

SpecRegistry == Init /\ [][NextRegistry]_vars

\* A store whose agents table holds HierarchyAgents rows with any
\* parent_agent_id among them, as written row by row through
\* BaseRepository.update: the relations with a cycle included.
InitHierarchy ==
    /\ NoTasksNoCalls
    /\ foreign_keys \in BOOLEAN
    /\ \E parent \in [1..HierarchyAgents -> {None} \cup 1..HierarchyAgents] :
          agents = [a \in 1..HierarchyAgents |->
                      NewAgent("specialist", "general", parent[a])]

\* Hierarchy queries on a stored parent relation.
NextHierarchy ==
    \/ \E root_agent_id \in {Missing} \cup DOMAIN agents : get_agent_hierarchy(root_agent_id)
    \/ build_hierarchy

SpecHierarchy == InitHierarchy /\ [][NextHierarchy]_vars

\* Workflows requested by up to MaxProcs callers at once on either kind of
\* database, and agents made active between them.  A request of medium
\* complexity plans six components and is left to Next.
NextOrchestration ==
    \/ \E p \in Procs, complexity \in {"low", "high", "extreme"},
          required_expertise \in ExpertiseInputs :
          orchestrate_workflow_lookup(p, complexity, {}, required_expertise)
    \/ \E p \in Procs : orchestrate_workflow(p)
    \/ \E a \in DOMAIN agents : update_agent_status(a, "active")

SpecOrchestration == Init /\ [][NextOrchestration]_vars

\* assign_optimal_agents called with up to MaxAssignTasks tasks and up to
\* MaxCandidates available agents
NextAssignment ==
    \E task_list \in SeqsOf(TaskPool, 1, MaxAssignTasks),
       available_agents \in SeqsOf(AgentPool, 0, MaxCandidates) :
       assign_optimal_agents(task_list, available_agents)

SpecAssignment == Init /\ [][NextAssignment]_vars

\* Failures and their recovery: tasks of a store of at most LifecycleTasks
\* tasks are started, failed, retried and handed to handle_task_failure.
NextRecovery ==
    \/ /\ Cardinality(DOMAIN tasks) < LifecycleTasks
       /\ create_task(None, None, "general")
    \/ \E t \in LifecycleTaskIds : start_task(t)
    \/ \E t \in LifecycleTaskIds : fail_task(t)
    \/ \E t \in LifecycleTaskIds : retry_task(t)
    \/ \E t \in DOMAIN tasks, error_context \in ErrorContexts :
          handle_task_failure(t, error_context)

SpecRecovery == InitEnforced /\ [][NextRecovery]_vars

\* Cancellation: a workflow's root task and its subtasks, in a store of at
\* most DependencyTasks tasks, are started, failed, retried and cancelled.
NextCancellation ==
    \/ \E parent \in {None} \cup DOMAIN tasks :
          /\ Cardinality(DOMAIN tasks) < DependencyTasks
          /\ create_task(None, parent, "workflow")
    \/ \E t \in DependencyTaskIds : start_task(t)
    \/ \E t \in DependencyTaskIds : fail_task(t)
    \/ \E t \in DependencyTaskIds : retry_task(t)
    \/ \E workflow_id \in DOMAIN tasks : cancel_workflow(workflow_id)

SpecCancellation == InitEnforced /\ [][NextCancellation]_vars

\* Deactivation: up to DeactivationAgents agents, one the parent of another,
\* are activated and deactivated while up to LifecycleTasks tasks are
\* assigned to them and run.
NextDeactivation ==
    \/ \E parent \in {None} \cup DOMAIN agents :
          /\ Cardinality(DOMAIN agents) < DeactivationAgents
          /\ create_agent("specialist", "general", parent, 0)
    \/ \E a \in DOMAIN agents : update_agent_status(a, "active")
    \/ \E a \in {Missing} \cup DOMAIN agents : deactivate_agent(a)
    \/ \E assigned \in {None} \cup DOMAIN agents :
          /\ Cardinality(DOMAIN tasks) < LifecycleTasks
          /\ create_task(assigned, None, "general")
    \/ \E t \in DOMAIN tasks, a \in DOMAIN agents : assign_task(t, a)
    \/ \E t \in DOMAIN tasks : start_task(t)

SpecDeactivation == InitEnforced /\ [][NextDeactivation]_vars

\* _analyze_task_complexity applied to every modelled request
NextAnalysis ==
    \E complexity \in ComplexityInputs, mentioned \in MentionedInputs,
       required_expertise \in AnalysisExpertiseInputs :
       analyze_task_complexity(complexity, mentioned, required_expertise)

SpecAnalysis == Init /\ [][NextAnalysis]_vars

\* decompose_complex_task applied to tasks of every level up to
\* MaxDelegationLevel with every max_depth up to it
NextComplexDecomposition ==
    \E task \in ComplexTaskInputs, max_depth \in 0..MaxDelegationLevel,
       strategy \in DecompositionStrategy :
       decompose_complex_task(task, max_depth, strategy)

SpecComplexDecomposition == Init /\ [][NextComplexDecomposition]_vars

\* compile_hierarchical_results applied to every modelled list of results
NextCompilation ==
    \E task_results \in TaskResultInputs : compile_hierarchical_results(task_results)

SpecCompilation == Init /\ [][NextCompilation]_vars

\* Partial failures: decompose_task on stored tasks and workflows of one
\* caller, on either database.
NextAtomicity ==
    \/ \E parent \in {None} \cup DOMAIN tasks : create_task(None, parent, "general")
    \/ \E task_id \in {Missing} \cup DOMAIN tasks : \E subtask_specs \in SubtaskSpecInputs :
          decompose_task(task_id, subtask_specs)
    \/ \E complexity \in {"low", "high"}, required_expertise \in ExpertiseInputs :
          orchestrate_workflow_lookup(1, complexity, {}, required_expertise)
    \/ orchestrate_workflow(1)

SpecAtomicity == Init /\ [][NextAtomicity]_vars

\* ====================================================== properties
ReadyStatuses == {"created", "queued", "assigned"}
ExecutedStatuses == {"in_progress", "completed"}
TerminalStatuses == {"completed", "cancelled", "timeout"}

\* t is the dependent task of a blocking dependency that is not satisfied
HasUnsatisfiedBlockingDependency(t) ==
    \E d \in DOMAIN deps :
        /\ deps[d].dependent_task_id = t
        /\ deps[d].is_blocking
        /\ ~deps[d].is_satisfied

\* C1: no call moves a task that has an unsatisfied blocking dependency into
\* in_progress or completed.
C1_BlockedTaskNotExecuted ==
    [][\A t \in DOMAIN tasks :
          (HasUnsatisfiedBlockingDependency(t) /\ tasks[t].status \notin ExecutedStatuses)
              => tasks'[t].status \notin ExecutedStatuses]_vars

\* C2: a task with a blocking dependency on a task that is not completed is
\* not ready, and right after complete_task has completed a task with a
\* successful result every blocking dependency on it is satisfied and its
\* dependent, when in created, queued or assigned with no other dependency,
\* is ready.
C2_ReadyAfterCompletion ==
    /\ \A d \in DOMAIN deps :
          (deps[d].is_blocking /\ tasks[deps[d].dependency_task_id].status # "completed")
              => deps[d].dependent_task_id \notin get_ready_tasks
    /\ (/\ lastOp.op = "complete_task"
        /\ lastOp.err = "none"
        /\ lastOp.success
        /\ TaskExists(lastOp.id)
        /\ tasks[lastOp.id].status = "completed")
       => \A d \in DOMAIN deps :
             (deps[d].dependency_task_id = lastOp.id /\ deps[d].is_blocking)
                => /\ deps[d].is_satisfied
                   /\ (/\ tasks[deps[d].dependent_task_id].status \in ReadyStatuses
                       /\ \A e \in DOMAIN deps :
                             deps[e].dependent_task_id = deps[d].dependent_task_id
                                => e = d)
                      => deps[d].dependent_task_id \in get_ready_tasks

\* the task a successful retry_task leaves
RetriedTask(task) ==
    [task EXCEPT !.status = "queued", !.started_at = None,
                 !.completed_at = None, !.actual_duration = None]

\* C3 as stated: retry_task on a stored task succeeds exactly when the task
\* is failed with retry_count < max_retries, then queues it and clears
\* started_at, completed_at and actual_duration; in every other case it fails
\* with a retry-limit error and leaves the task unchanged.
C3_RetryOrRetryLimit ==
    [][(lastOp'.op = "retry_task" /\ TaskExists(lastOp'.id))
          => LET t == lastOp'.id IN
             IF tasks[t].status = "failed" /\ tasks[t].retry_count < tasks[t].max_retries
             THEN lastOp'.err = "none" /\ tasks'[t] = RetriedTask(tasks[t])
             ELSE lastOp'.err = "retry_limit" /\ tasks'[t] = tasks[t]]_vars

\* C3 amended: as C3, but the failure is a retry-limit error only when
\* retry_count >= max_retries; a task below the limit that is not failed is
\* refused with a not-in-failed-state error.  The task is unchanged either way.
C3_RetryOrError ==
    [][(lastOp'.op = "retry_task" /\ TaskExists(lastOp'.id))
          => LET t == lastOp'.id IN
             IF tasks[t].status = "failed" /\ tasks[t].retry_count < tasks[t].max_retries
             THEN lastOp'.err = "none" /\ tasks'[t] = RetriedTask(tasks[t])
             ELSE /\ lastOp'.err = IF tasks[t].retry_count >= tasks[t].max_retries
                                   THEN "retry_limit" ELSE "not_failed"
                  /\ tasks'[t] = tasks[t]]_vars

\* C3 witness: a retry has just succeeded on a task that had been started.
C3_Witness ==
    /\ lastOp.op = "retry_task"
    /\ lastOp.err = "none"
    /\ TaskExists(lastOp.id)
    /\ tasks[lastOp.id].status = "queued"
    /\ tasks[lastOp.id].retry_count > 0
    /\ tasks[lastOp.id].started_at = None

\* C4: every task has retry_count <= max_retries, and retry_task fails for a
\* task whose retry_count has reached max_retries.
C4_RetryCountBounded ==
    /\ \A t \in DOMAIN tasks : tasks[t].retry_count <= tasks[t].max_retries
    /\ (lastOp.op = "retry_task" /\ lastOp.err = "none" /\ TaskExists(lastOp.id))
          => tasks[lastOp.id].retry_count < tasks[lastOp.id].max_retries

\* C5: no call changes the status of a completed, cancelled or timed-out
\* task, and a failed task leaves failed only by a successful retry_task,
\* to queued.
C5_TerminalAbsorbing ==
    [][\A t \in DOMAIN tasks :
          /\ tasks[t].status \in TerminalStatuses => tasks'[t].status = tasks[t].status
          /\ (tasks[t].status = "failed" /\ tasks'[t].status # "failed")
                => /\ lastOp'.op = "retry_task"
                   /\ lastOp'.id = t
                   /\ lastOp'.err = "none"
                   /\ tasks'[t].status = "queued"]_vars

\* C6: start_task on a stored task in created, queued or assigned succeeds,
\* sets in_progress and stamps started_at; in any other status it fails and
\* leaves status and started_at unchanged.
C6_StartOnlyFromReady ==
    [][(lastOp'.op = "start_task" /\ TaskExists(lastOp'.id))
          => LET t == lastOp'.id IN
             IF tasks[t].status \in ReadyStatuses
             THEN /\ lastOp'.err = "none"
                  /\ tasks'[t].status = "in_progress"
                  /\ tasks'[t].started_at = now
             ELSE /\ lastOp'.err # "none"
                  /\ tasks'[t].status = tasks[t].status
                  /\ tasks'[t].started_at = tasks[t].started_at]_vars

\* C7: assign_task of a stored task to a stored agent whose status is not
\* active fails with the not-active error and leaves the task's
\* assigned_agent_id and status unchanged; to an active agent it sets
\* assigned_agent_id to that agent and status to assigned.
C7_AssignOnlyToActive ==
    [][(lastOp'.op = "assign_task" /\ TaskExists(lastOp'.id) /\ AgentExists(lastOp'.agent))
          => LET t == lastOp'.id
                 a == lastOp'.agent
             IN IF agents[a].status # "active"
                THEN /\ lastOp'.err = "agent_not_active"
                     /\ tasks'[t].assigned_agent_id = tasks[t].assigned_agent_id
                     /\ tasks'[t].status = tasks[t].status
                ELSE /\ lastOp'.err = "none"
                     /\ tasks'[t].assigned_agent_id = a
                     /\ tasks'[t].status = "assigned"]_vars

\* C7 witness: an assignment to a deactivated agent has just been refused
\* for a task that is still unassigned.
C7_Witness ==
    /\ lastOp.op = "assign_task"
    /\ lastOp.err = "agent_not_active"
    /\ TaskExists(lastOp.id)
    /\ AgentExists(lastOp.agent)
    /\ agents[lastOp.agent].status = "deactivated"
    /\ tasks[lastOp.id].assigned_agent_id = None
    /\ tasks[lastOp.id].status = "created"

\* C8: when a task created with an assigned agent and then started is
\* completed with a successful result, it ends completed with
\* actual_duration = completed_at - started_at, and the agent's
\* tasks_completed has grown by exactly 1 with tasks_failed unchanged.
C8_RoundTrip ==
    [][(/\ lastOp'.op = "complete_task"
        /\ lastOp'.success
        /\ lastOp'.id \in DOMAIN roundtrip
        /\ roundtrip[lastOp'.id] = "started")
          => LET t == lastOp'.id
                 a == tasks[t].assigned_agent_id
             IN /\ tasks'[t].status = "completed"
                /\ tasks'[t].actual_duration = tasks'[t].completed_at - tasks'[t].started_at
                /\ agents'[a].tasks_completed = agents[a].tasks_completed + 1
                /\ agents'[a].tasks_failed = agents[a].tasks_failed]_vars

\* C9: get_ready_tasks is exactly the set of tasks in created, queued or
\* assigned that have no unsatisfied blocking dependency.
C9_ReadyTasksExact ==
    get_ready_tasks =
        {t \in DOMAIN tasks :
            tasks[t].status \in ReadyStatuses /\ ~HasUnsatisfiedBlockingDependency(t)}

NoCallInFlight == \A p \in Procs : calls[p].pc = "idle"

\* C11: when the update_performance_metrics calls made for an agent have all
\* returned, overlapping ones included, none of them is lost:
\* tasks_completed + tasks_failed is the number of calls and
\* average_task_duration is the mean of the durations of all of them.
C11_NoLostUpdate ==
    NoCallInFlight =>
        \A a \in DOMAIN agents :
            /\ agents[a].tasks_completed + agents[a].tasks_failed = supplied[a].count
            /\ agents[a].average_task_duration = Rat(supplied[a].sum, supplied[a].count)

\* C12: after N update_performance_metrics calls that follow one another on
\* an agent that started with zero counters, tasks_completed + tasks_failed
\* is N and average_task_duration times N is the sum of the N durations,
\* whatever the durations, the outcomes and their order.
C12_RunningAverageIsMean ==
    \A a \in DOMAIN agents :
        calls[1].pc = "idle" =>
            LET N == supplied[a].count
                avg == agents[a].average_task_duration
            IN /\ agents[a].tasks_completed + agents[a].tasks_failed = N
               /\ avg.num * N = supplied[a].sum * avg.den

\* C12 witness: three calls with durations that are not all equal, a success
\* and a failure among them, have returned, and the mean is not an integer.
C12_Witness ==
    \E a \in DOMAIN agents :
        /\ calls[1].pc = "idle"
        /\ supplied[a].count = 3
        /\ agents[a].tasks_completed > 0
        /\ agents[a].tasks_failed > 0
        /\ agents[a].average_task_duration.den = 3

C14_TaskDelegationLevel ==
    \A t \in DOMAIN tasks :
        IF tasks[t].parent_task_id = None
        THEN tasks[t].delegation_level = 0 /\ tasks[t].delegation_chain = <<>>
        ELSE /\ TaskExists(tasks[t].parent_task_id)
             /\ tasks[t].delegation_level =
                    tasks[tasks[t].parent_task_id].delegation_level + 1
             /\ tasks[t].delegation_chain =
                    Append(tasks[tasks[t].parent_task_id].delegation_chain,
                           tasks[t].parent_task_id)

\* C15: every agent without a parent has delegation_level 0 and every agent
\* whose parent is stored has the parent's delegation_level plus one: a
\* department head created under the conductor has 1, a specialist
\* recruited under that head 2.
C15_AgentDelegationLevel ==
    \A a \in DOMAIN agents :
        /\ agents[a].parent_agent_id = None => agents[a].delegation_level = 0
        /\ (agents[a].parent_agent_id # None /\ AgentExists(agents[a].parent_agent_id))
              => agents[a].delegation_level =
                     agents[agents[a].parent_agent_id].delegation_level + 1

\* C16: create_agent with a parent id that names no agent fails with a
\* not-found error and stores no agent, no core memory and no relationship;
\* with a parent that exists it stores the hierarchical, directional
\* relationship from the parent to the new agent, the parent dominant.
C16_CreateAgentUnknownParent ==
    [][lastOp'.op = "create_agent"
          => LET parent == lastOp'.agent IN
             IF parent # None /\ ~AgentExists(parent)
             THEN /\ lastOp'.err = "not_found"
                  /\ agents' = agents
                  /\ memories' = memories
                  /\ relationships' = relationships
             ELSE parent # None
                    => /\ lastOp'.err = "none"
                       /\ [agent_a_id |-> parent, agent_b_id |-> lastOp'.id,
                           relationship_type |-> "hierarchical",
                           is_directional |-> TRUE,
                           dominant_agent_id |-> parent] \in relationships']_vars

\* C17: whatever the stored parent relation, one with a cycle included, a
\* get_agent_hierarchy call visits each agent at most once and does not end
\* in unbounded recursion.
C17_HierarchyTerminates ==
    /\ traversal.status # "recursion_error"
    /\ \A a \in DOMAIN traversal.visits : traversal.visits[a] <= 1

\* C18: the Conductor is a singleton: whatever orchestrate_workflow calls were
\* made, overlapping ones included, at most one agent of type conductor exists.
C18_ConductorSingleton ==
    Cardinality({a \in DOMAIN agents : agents[a].agent_type = "conductor"}) <= 1

\* the subtasks an orchestrate_workflow call that has just ended added under
\* its main task
NewSubtasks ==
    {t \in DOMAIN tasks' \ DOMAIN tasks : tasks'[t].parent_task_id = lastOp'.id}

\* C19: an orchestrate_workflow call with complexity high or extreme chooses
\* the hierarchical strategy, creates exactly one subtask per required
\* department and leaves each in status assigned to a department head whose
\* specialization is the subtask's department; with expertise programming and
\* testing the departments include software_development and quality_assurance.
C19_HierarchicalAssignment ==
    [][(lastOp'.op = "orchestrate_workflow" /\ lastOp'.arg[1] \in {"high", "extreme"}) =>
        LET required_expertise == lastOp'.arg[2]
            strategy == lastOp'.arg[3]
            departments == lastOp'.arg[4]
        IN  /\ strategy = "hierarchical"
            /\ Cardinality(NewSubtasks) = Len(departments)
            /\ \A i \in 1..Len(departments) :
                  \E t \in NewSubtasks :
                      /\ tasks'[t].task_type = TaskTypeOf(departments[i])
                      /\ tasks'[t].status = "assigned"
                      /\ tasks'[t].assigned_agent_id \in DOMAIN agents'
                      /\ agents'[tasks'[t].assigned_agent_id].agent_type = "department_head"
                      /\ agents'[tasks'[t].assigned_agent_id].specialization = departments[i]
            /\ {"programming", "testing"} \subseteq required_expertise =>
                  {"software_development", "quality_assurance"} \subseteq
                      {departments[i] : i \in 1..Len(departments)}
    ]_vars

\* the agents of agent_list, by position, whose capabilities include all of
\* the task's required_capabilities
Qualifying(task, agent_list) ==
    {k \in 1..Len(agent_list) : task.required_capabilities \subseteq agent_list[k].capabilities}

\* 0.5*capability_match_ratio + 0.3*(1 - current_load/10) + 0.2*success_rate
\* of an agent that has all the required capabilities, in thousandths
Score(agent) == 500 + 30 * (10 - agent.current_load) + 2 * agent.success_rate

\* C20: assign_optimal_agents pairs a task only with an agent whose
\* capabilities include all of the task's required_capabilities, every task
\* that has such an agent is paired, and the first task is paired with the
\* qualifying agent of the highest score, the first of them on a tie; for a
\* task requiring python and testing and the agents A and B it selects B.
C20_OptimalAgentSelected ==
    lastOp.op = "assign_optimal_agents" =>
        LET task_list == lastOp.arg[1]
            agent_list == lastOp.arg[2]
            assignments == lastOp.arg[3]
            Pairs == {assignments[j] : j \in 1..Len(assignments)}
            first == Qualifying(task_list[1], agent_list)
        IN  /\ \A pair \in Pairs : pair[2] \in Qualifying(task_list[pair[1]], agent_list)
            /\ \A i \in 1..Len(task_list) :
                  Qualifying(task_list[i], agent_list) # {} => \E pair \in Pairs : pair[1] = i
            /\ first # {} =>
                  \E pair \in Pairs :
                      /\ pair[1] = 1
                      /\ pair[2] \in first
                      /\ \A k \in first :
                            \/ Score(agent_list[k]) < Score(agent_list[pair[2]])
                            \/ Score(agent_list[k]) = Score(agent_list[pair[2]]) /\ pair[2] <= k
            /\ (/\ task_list = <<[required_capabilities |-> {"python", "testing"}]>>
                /\ agent_list = <<AgentA, AgentB>>) => assignments = <<(<<1, 2>>)>>

\* the five recovery strategies
RecoveryStrategies == {"retry", "reassign", "decompose", "escalate", "abort"}

\* C21: every handle_task_failure call applies exactly one recovery strategy:
\* the returned strategy is one of retry, reassign, decompose, escalate and
\* abort, and actions_taken holds exactly one entry, the action of that
\* strategy.
C21_ExactlyOneRecovery ==
    lastOp.op = "handle_task_failure" =>
        LET recovery_result == lastOp.arg[2] IN
        /\ recovery_result.strategy \in RecoveryStrategies
        /\ Len(recovery_result.actions_taken) = 1
        /\ recovery_result.actions_taken[1].action = recovery_result.strategy

\* a handle_task_failure call on a failed task that was retried before has
\* returned
C21_Witness ==
    /\ lastOp.op = "handle_task_failure"
    /\ tasks[lastOp.id].status = "failed"
    /\ tasks[lastOp.id].retry_count > 1
    /\ lastOp.arg[2].strategy = "retry"

\* C22: handle_task_failure chooses decompose, not retry, when the failure is
\* that the task exceeded complexity, and chooses retry only while the
\* task's retry_count is below max_retries.
C22_StrategyFollowsFailure ==
    lastOp.op = "handle_task_failure" =>
        LET failed_task == tasks[lastOp.id]
            error_context == lastOp.arg[1]
            strategy == lastOp.arg[2].strategy
        IN  /\ error_context = "exceeded_complexity" => strategy = "decompose"
            /\ strategy = "retry" => failed_task.retry_count < failed_task.max_retries

\* task t is root or is reached from root through parent_task_id links, over
\* at most n links
RECURSIVE ReachableFrom(_, _, _)
ReachableFrom(root, t, n) ==
    \/ t = root
    \/ /\ n > 0
       /\ tasks[t].parent_task_id \in DOMAIN tasks
       /\ ReachableFrom(root, tasks[t].parent_task_id, n - 1)

\* C23: cancelling a workflow sets every non-terminal task (one that is not
\* completed, cancelled, timed out or failed) reachable from the workflow's
\* root through parent_task_id links to cancelled, and no retry_task call on
\* a cancelled task succeeds or moves it out of cancelled.
C23_CancellationCascades ==
    [][/\ lastOp'.op = "cancel_workflow" =>
             \A t \in DOMAIN tasks :
                 (/\ ReachableFrom(lastOp'.id, t, Cardinality(DOMAIN tasks))
                  /\ tasks[t].status \notin TerminalStatuses \cup {"failed"})
                     => tasks'[t].status = "cancelled"
       /\ (/\ lastOp'.op = "retry_task"
           /\ TaskExists(lastOp'.id)
           /\ tasks[lastOp'.id].status = "cancelled")
             => lastOp'.err # "none" /\ tasks'[lastOp'.id].status = "cancelled"
    ]_vars

DepartmentKeywords == UNION {DepartmentMapping[i].keywords : i \in DOMAIN DepartmentMapping}

\* C25: the analysis maps low, medium, high, extreme to the scores 0.3, 0.6,
\* 0.8, 0.95 (here in hundredths), derives estimated_subtasks =
\* max(2, round(score * 10)), that is 3, 6, 8 and 10, recommends sequential
\* below 0.4, parallel below 0.7 and hierarchical otherwise, and
\* required_departments is <<"general_specialist">> exactly when no
\* department keyword matches.
C25_ComplexityAnalysis ==
    lastOp.op = "analyze_task_complexity" =>
        LET complexity == lastOp.arg[1]
            matched == DepartmentKeywords \cap (lastOp.arg[2] \cup lastOp.arg[3])
            analysis == lastOp.arg[4]
            score == analysis.complexity_score
            rounded == (score + 5) \div 10
        IN  /\ complexity = "low" => score = 30 /\ analysis.estimated_subtasks = 3
            /\ complexity = "medium" => score = 60 /\ analysis.estimated_subtasks = 6
            /\ complexity = "high" => score = 80 /\ analysis.estimated_subtasks = 8
            /\ complexity = "extreme" => score = 95 /\ analysis.estimated_subtasks = 10
            /\ analysis.estimated_subtasks = IF rounded > 2 THEN rounded ELSE 2
            /\ analysis.recommended_strategy =
                  IF score < 40 THEN "sequential"
                  ELSE IF score < 70 THEN "parallel" ELSE "hierarchical"
            /\ analysis.required_departments = <<"general_specialist">> <=> matched = {}

\* C26: when the strategy is sequential, orchestrate_workflow creates exactly
\* the four phase subtasks planning, execution, review, finalization, in that
\* order, and every phase but planning has a stored finish-to-start
\* dependency on the phase before it.
C26_SequentialPhasesChained ==
    [][(lastOp'.op = "orchestrate_workflow" /\ lastOp'.arg[3] = "sequential") =>
          LET main_task == lastOp'.id IN
          /\ NewSubtasks = {main_task + i : i \in 1..Len(Phases)}
          /\ \A i \in 1..Len(Phases) :
                /\ main_task + i \in DOMAIN tasks'
                /\ tasks'[main_task + i].task_type = TaskTypeOf(Phases[i])
                /\ i > 1 =>
                      \E d \in DOMAIN deps' :
                          /\ deps'[d].dependent_task_id = main_task + i
                          /\ deps'[d].dependency_task_id = main_task + i - 1
                          /\ deps'[d].dependency_type = "finish_to_start"
    ]_vars

\* C27: decompose_complex_task returns for every task and every max_depth,
\* its recursion depth never exceeds max_depth, it decomposes no task whose
\* delegation_level is max_depth or more, and such a task is returned
\* unchanged as the only element of the result.
C27_DecompositionBounded ==
    lastOp.op = "decompose_complex_task" =>
        LET task == lastOp.arg[1]
            max_depth == lastOp.arg[2]
            result == lastOp.arg[4]
        IN  /\ result.depth <= max_depth
            /\ \A x \in result.decomposed : x.delegation_level < max_depth
            /\ task.delegation_level >= max_depth => result.tasks = <<task>>

\* a long workflow task at the depth limit has been handed to
\* decompose_complex_task and came back as it was
C27_Witness ==
    /\ lastOp.op = "decompose_complex_task"
    /\ lastOp.arg[1].task_type = "workflow"
    /\ lastOp.arg[1].long_description
    /\ lastOp.arg[1].delegation_level = lastOp.arg[2]
    /\ lastOp.arg[2] > 0
    /\ lastOp.arg[4].tasks = <<lastOp.arg[1]>>

\* C28: compile_hierarchical_results synthesizes the levels present in
\* strictly decreasing order, deepest first, each level once; every synthesis
\* after the first is given the summary of the level synthesized just before
\* it, the next deeper processed level, as parent_context; and the final
\* result is the synthesis of level 0.
C28_BottomUpCompilation ==
    lastOp.op = "compile_hierarchical_results" =>
        LET task_results == lastOp.arg[1]
            compiled == lastOp.arg[2]
            syntheses == compiled.syntheses
            levels == {task_results[i].delegation_level : i \in 1..Len(task_results)}
        IN  /\ {syntheses[i].level : i \in 1..Len(syntheses)} = levels
            /\ \A i \in 1..Len(syntheses) :
                  i > 1 => /\ syntheses[i].level < syntheses[i - 1].level
                           /\ syntheses[i].has_context
                           /\ syntheses[i].context_level = syntheses[i - 1].level
            /\ 0 \in levels => compiled.final_result = compiled.compiled_results[0]

C30_DecomposeAllOrNothing ==
    [][/\ (lastOp'.op = "decompose_task" /\ lastOp'.err # "none")
             => tasks' = tasks /\ deps' = deps
       /\ (lastOp'.op = "orchestrate_workflow" /\ lastOp'.err # "none")
             => tasks' = tasks /\ deps' = deps
    ]_vars

====
